---- MODULE Spec2Model ----
(***************************************************************************)
(* The streaming pretty formatter of src/src/index.ts (PrettyFormatter).   *)
(*                                                                         *)
(* The formatter is an event sink: the broadcaster hands it one envelope   *)
(* at a time, parseEnvelope dispatches it to up to four handlers, and the  *)
(* handlers log styled text and update three fields (uri, lastRuleId,      *)
(* indentOffset).  One action of the model is one delivered envelope.      *)
(*                                                                         *)
(* JavaScript's undefined is the string Undefined for string-valued        *)
(* fields; an optional list or object carries a has... flag instead.       *)
(* The text the formatter has written is kept as (a) the items logged      *)
(* while the last envelope was handled and (b) per-document and per-rule   *)
(* counts of the heads rendered since construction.                        *)
(***************************************************************************)
EXTENDS Integers, Sequences, FiniteSets, TLC

VARIABLES
    uri,            \* private uri?: string
    lastRuleId,     \* private lastRuleId?: string
    indentOffset,   \* private indentOffset = 0
    logged,         \* the items this.log() received while the last envelope was handled
    error,          \* the exception that left parseEnvelope for the last envelope
    envelope,       \* the last envelope delivered
    featureHeads,   \* document uri -> number of feature heads rendered so far
    ruleHeads,      \* rule id -> number of rule heads rendered so far
    nEvents,        \* number of envelopes delivered so far
    theme           \* const theme = makeTheme(...): the style table the constructor resolved

vars == <<uri, lastRuleId, indentOffset, logged, error, envelope,
          featureHeads, ruleHeads, nEvents, theme>>

\* Number of envelopes delivered in one run of the model.
MaxEvents == 3

Undefined == "undefined"
NoError == "none"
PickleAstNodesMissing == "Error: Pickle AST nodes missing"
TypeError == "TypeError"

\* JavaScript truthiness of an optional string (x && ..., x || y, !x).
Truthy(x) == x # Undefined /\ x # ""

\* a || b on optional strings.
OrElse(a, b) == IF Truthy(a) THEN a ELSE b

\* map[key] on a lookup table: the entry, or undefined.
Has(map, key) == key \in DOMAIN map
Lookup(map, key) == IF Has(map, key) THEN map[key] ELSE Undefined

\* list[0]: the first element, or undefined for an empty list.
First(list) == IF Len(list) > 0 THEN list[1] ELSE Undefined

EmptyMap == <<>>

(***************************************************************************)
(* The Status enumeration (string enum of @cucumber/messages) and its      *)
(* marks.                                                                  *)
(***************************************************************************)
Status == {"AMBIGUOUS", "FAILED", "PASSED", "PENDING", "SKIPPED", "UNDEFINED", "UNKNOWN"}

marks == [AMBIGUOUS |-> "x", FAILED |-> "x", PASSED |-> "v", PENDING |-> "?",
          SKIPPED |-> "-", UNDEFINED |-> "?", UNKNOWN |-> "?"]

\* Status[status].toLowerCase()
StatusLower == [AMBIGUOUS |-> "ambiguous", FAILED |-> "failed", PASSED |-> "passed",
                PENDING |-> "pending", SKIPPED |-> "skipped",
                UNDEFINED |-> "undefined", UNKNOWN |-> "unknown"]

themeItemIndentations ==
    [DataTable |-> 6, DataTableBorder |-> 0, DataTableContent |-> 0,
     DocStringContent |-> 6, DocStringDelimiter |-> 6, FeatureDescription |-> 2,
     FeatureKeyword |-> 0, FeatureName |-> 0, Location |-> 0, RuleKeyword |-> 2,
     RuleName |-> 0, ScenarioKeyword |-> 2, ScenarioName |-> 0, StepKeyword |-> 4,
     StepMessage |-> 6, StepStatus |-> 4, StepText |-> 0, Tag |-> 0]

ThemeItems == DOMAIN themeItemIndentations

NoStyles == <<>>

defaultThemeStyles ==
    [DataTable |-> NoStyles, DataTableBorder |-> <<"gray">>,
     DataTableContent |-> <<"gray", "italic">>, DocStringContent |-> <<"gray", "italic">>,
     DocStringDelimiter |-> <<"gray">>, FeatureDescription |-> <<"gray">>,
     FeatureKeyword |-> <<"blueBright", "bold">>, FeatureName |-> <<"blueBright", "underline">>,
     Location |-> <<"dim">>, RuleKeyword |-> <<"blueBright", "bold">>,
     RuleName |-> <<"blueBright", "underline">>, ScenarioKeyword |-> <<"cyan", "bold">>,
     ScenarioName |-> <<"cyan", "underline">>, StepKeyword |-> <<"cyan">>,
     StepMessage |-> NoStyles, StepStatus |-> NoStyles, StepText |-> NoStyles,
     Tag |-> <<"cyan">>]

\* A sparse theme given on the command line (parsedArgvOptions.theme).
customThemeStyles ==
    [ScenarioKeyword |-> <<"red", "inverse">>, Tag |-> NoStyles, DataTableContent |-> <<"bold">>]

\* The parsedArgvOptions the constructor reads.
ParsedArgvOptions ==
    [colorsEnabled : BOOLEAN, hasTheme : {FALSE}, theme : {EmptyMap}]
    \cup [colorsEnabled : BOOLEAN, hasTheme : {TRUE}, theme : {customThemeStyles}]

\* makeTheme(styles) of ./theme: the complete style table, an item the given styles
\* leave out getting no style tags.
makeTheme(styles) ==
    [item \in ThemeItems |-> IF Has(styles, item) THEN styles[item] ELSE NoStyles]

\* theme.indentStyleText(indent, item, ...text) of ./theme: the text under the item's
\* style tags, behind `indent` columns of spaces.
indentStyleText(styleTable, indent, item, text) ==
    [indent |-> indent, styles |-> styleTable[item], text |-> text]

\* makeTheme(colorsEnabled ? theme || defaultThemeStyles : {})
themeOf(parsedArgvOptions) ==
    makeTheme(IF parsedArgvOptions.colorsEnabled
              THEN IF parsedArgvOptions.hasTheme
                   THEN parsedArgvOptions.theme ELSE defaultThemeStyles
              ELSE EmptyMap)

\* this.indentOffset = 2 (the width of the nesting under a rule)
RuleIndentOffset == 2

\* renderTags(0, feature.tags) and renderTags(2, pickle.tags)
FeatureTagIndent == 0
ScenarioTagIndent == 2

(***************************************************************************)
(* The data the eventDataCollector resolves: three Gherkin documents and   *)
(* the test case attempts run from them.  A document's lookup tables       *)
(* (AST node id -> node) are what getGherkinExampleRuleMap,                *)
(* getGherkinScenarioMap and getGherkinStepMap return for it; a document   *)
(* without a feature has no nodes, so its tables are empty.                *)
(***************************************************************************)
DocA ==
    [uri |-> "a.feature", hasFeature |-> TRUE,
     feature |-> [keyword |-> "Feature", name |-> "A", tags |-> <<"@f">>,
                  hasLocation |-> TRUE, line |-> 1, description |-> "about A"],
     exampleRuleMap |-> [s2 |-> "R1", s3 |-> "R1", s4 |-> "R2"],
     scenarioMap |-> [s1 |-> [keyword |-> "Scenario", line |-> 3],
                      s2 |-> [keyword |-> "Example", line |-> 7],
                      s3 |-> [keyword |-> "Scenario Outline", line |-> 9],
                      s4 |-> [keyword |-> "", line |-> 0]],
     stepMap |-> [st1 |-> [keyword |-> "Given ", hasDocString |-> FALSE, hasDataTable |-> FALSE,
                           rows |-> <<>>],
                  st2 |-> [keyword |-> "When ", hasDocString |-> TRUE, hasDataTable |-> FALSE,
                           rows |-> <<>>],
                  st3 |-> [keyword |-> "Then ", hasDocString |-> TRUE, hasDataTable |-> TRUE,
                           rows |-> <<[hasCells |-> TRUE, cells |-> <<"x", Undefined>>],
                                      [hasCells |-> FALSE, cells |-> <<>>]>>]]]

DocB ==
    [uri |-> "b.feature", hasFeature |-> TRUE,
     feature |-> [keyword |-> "", name |-> "B", tags |-> <<>>,
                  hasLocation |-> FALSE, line |-> 0, description |-> ""],
     exampleRuleMap |-> [s6 |-> "R3"],
     scenarioMap |-> [s5 |-> [keyword |-> "Scenario", line |-> 2],
                      s6 |-> [keyword |-> "Scenario", line |-> 5]],
     stepMap |-> [st4 |-> [keyword |-> "Given ", hasDocString |-> FALSE, hasDataTable |-> TRUE,
                           rows |-> <<[hasCells |-> TRUE, cells |-> <<"1">>]>>]]]

DocC ==
    [uri |-> "c.feature", hasFeature |-> FALSE,
     feature |-> [keyword |-> "", name |-> "", tags |-> <<>>,
                  hasLocation |-> FALSE, line |-> 0, description |-> ""],
     exampleRuleMap |-> EmptyMap,
     scenarioMap |-> EmptyMap,
     stepMap |-> EmptyMap]

GherkinDocuments == {DocA, DocB, DocC}
Uris == {d.uri : d \in GherkinDocuments}
RuleIds == {"R1", "R2", "R3"}

\* The pickle steps and runtime steps of the attempts that have steps.
PickleStepsA ==
    [ps1 |-> [astNodeIds |-> <<"st1">>, text |-> "a"],
     ps2 |-> [astNodeIds |-> <<"st2">>, text |-> "b"],
     ps3 |-> [astNodeIds |-> <<"st3", "row1">>, text |-> "c"],
     ps5 |-> [astNodeIds |-> <<"stX">>, text |-> "e"],
     ps6 |-> [astNodeIds |-> <<>>, text |-> "f"]]

TestStepsA ==
    <<[id |-> "hook", pickleStepId |-> Undefined],
      [id |-> "ts1", pickleStepId |-> "ps1"],
      [id |-> "ts2", pickleStepId |-> "ps2"],
      [id |-> "ts3", pickleStepId |-> "ps3"],
      [id |-> "ts4", pickleStepId |-> "psX"],
      [id |-> "ts5", pickleStepId |-> "ps5"],
      [id |-> "ts6", pickleStepId |-> "ps6"],
      [id |-> "ts7", pickleStepId |-> ""]>>

PickleStepsB == [ps4 |-> [astNodeIds |-> <<"st4">>, text |-> "d"]]

TestStepsB == <<[id |-> "ts1", pickleStepId |-> "ps4"]>>

Pickle(hasIds, ids, tags, steps) ==
    [hasAstNodeIds |-> hasIds, astNodeIds |-> ids, name |-> "scenario",
     tags |-> tags, steps |-> steps]

TestCase(hasSteps, steps) == [hasTestSteps |-> hasSteps, testSteps |-> steps]

Attempt(doc, pickle, testCase) ==
    [gherkinDocument |-> doc, pickle |-> pickle, testCase |-> testCase]

\* eventDataCollector.getTestCaseAttempt(id), for the ids of the run
TestCaseAttempts ==
    [a1 |-> Attempt(DocA, Pickle(TRUE, <<"s1">>, <<>>, PickleStepsA), TestCase(TRUE, TestStepsA)),
     a2 |-> Attempt(DocA, Pickle(TRUE, <<"s2">>, <<"@t">>, PickleStepsA), TestCase(TRUE, TestStepsA)),
     a3 |-> Attempt(DocA, Pickle(TRUE, <<"s3", "ex1">>, <<"", "@t", "@u">>, EmptyMap), TestCase(FALSE, <<>>)),
     a4 |-> Attempt(DocA, Pickle(TRUE, <<"s4">>, <<>>, EmptyMap), TestCase(TRUE, <<>>)),
     a5 |-> Attempt(DocA, Pickle(FALSE, <<>>, <<"@t">>, EmptyMap), TestCase(TRUE, <<>>)),
     a6 |-> Attempt(DocA, Pickle(TRUE, <<>>, <<"@t">>, EmptyMap), TestCase(TRUE, <<>>)),
     a7 |-> Attempt(DocA, Pickle(TRUE, <<"bg">>, <<>>, EmptyMap), TestCase(TRUE, <<>>)),
     b1 |-> Attempt(DocB, Pickle(TRUE, <<"s5">>, <<"@t">>, PickleStepsB), TestCase(TRUE, TestStepsB)),
     b2 |-> Attempt(DocB, Pickle(TRUE, <<"s6">>, <<>>, EmptyMap), TestCase(TRUE, <<>>)),
     b3 |-> Attempt(DocB, Pickle(FALSE, <<>>, <<>>, EmptyMap), TestCase(TRUE, <<>>)),
     c1 |-> Attempt(DocC, Pickle(TRUE, <<"s9">>, <<"@t">>, EmptyMap), TestCase(TRUE, <<>>)),
     c2 |-> Attempt(DocC, Pickle(FALSE, <<>>, <<>>, EmptyMap), TestCase(TRUE, <<>>))]

AttemptIds == DOMAIN TestCaseAttempts

\* The attempts step-started events name: with runtime steps (outside and under a
\* rule), without a list of runtime steps, and of the document without a feature.
StepAttemptIds == {"a1", "a2", "a3", "b1", "c1"}
TestStepIds == {"hook", "ts1", "ts2", "ts3", "ts4", "ts5", "ts6", "ts7", "nope"}
Messages == {Undefined, "", "boom"}

getTestCaseAttempt(id) == TestCaseAttempts[id]
getGherkinExampleRuleMap(gherkinDocument) == gherkinDocument.exampleRuleMap
getGherkinScenarioMap(gherkinDocument) == gherkinDocument.scenarioMap
getGherkinStepMap(gherkinDocument) == gherkinDocument.stepMap
getPickleStepMap(pickle) == pickle.steps

\* formatLocation({ uri, line }, cwd)
formatLocation(u, line) == u \o ":" \o ToString(line)

(***************************************************************************)
(* Logging.  A machine m is the formatter while one envelope is handled:   *)
(* its three fields, the items logged so far and the exception thrown.     *)
(* A logged item records the render routine that logged it (by), the theme *)
(* item, the indentation it was given and its text.                        *)
(***************************************************************************)
Space == [item |-> "text", indent |-> 0, text |-> " "]
EOL == [item |-> "EOL", indent |-> 0, text |-> "\n"]

\* styleItem that adds the offset to an item of base indentation 0 too
styleItem_ShiftsUnindented(offset, indent, item, text) ==
    [item |-> item,
     indent |-> IF offset > 0 THEN indent + offset ELSE indent,
     text |-> text]

\* this.styleItem(indent, item, ...text) under the indentation offset `offset`: what it
\* hands to theme.indentStyleText
styleItem(offset, indent, item, text) ==
    [item |-> item,
     indent |-> IF indent > 0 /\ offset > 0 THEN indent + offset ELSE indent,
     text |-> text]

\* what this.logItem(item, ...text) hands to this.log
logItem(offset, item, text) == styleItem(offset, themeItemIndentations[item], item, text)

\* this.log(x) for each x of `items`, called from the routine `by`
log(m, by, items) ==
    [m EXCEPT !.log = @ \o [i \in 1..Len(items) |->
                              [by |-> by, item |-> items[i].item,
                               indent |-> items[i].indent, text |-> items[i].text]]]

throw(m, e) == [m EXCEPT !.error = e]

RECURSIVE OtherTags(_, _)
\* tagStrings.forEach((tag) => { this.log(' '); this.logItem(ThemeItem.Tag, tag) })
OtherTags(offset, tagStrings) ==
    IF tagStrings = <<>> THEN <<>>
    ELSE <<Space, logItem(offset, "Tag", Head(tagStrings))>>
         \o OtherTags(offset, Tail(tagStrings))

\* The items renderTags(indent, tags) logs.
renderTags(offset, indent, tags) ==
    LET tagStrings == SelectSeq(tags, Truthy)
    IN  IF Len(tagStrings) > 0
        THEN <<styleItem(offset, indent, "Tag", Head(tagStrings))>>
             \o OtherTags(offset, Tail(tagStrings)) \o <<EOL>>
        ELSE <<>>

\* line || -1
LineOr(line) == IF line = 0 THEN -1 ELSE line

\* The item renderLocation(line) logs.
renderLocation(m, line) ==
    logItem(m.indentOffset, "Location", "# " \o formatLocation(OrElse(m.uri, ""), line))

renderFeatureHead(m, feature) ==
    log(m, "renderFeatureHead",
        renderTags(m.indentOffset, FeatureTagIndent, feature.tags)
        \o <<logItem(m.indentOffset, "FeatureKeyword", OrElse(feature.keyword, "[feature]") \o ":"),
             Space,
             logItem(m.indentOffset, "FeatureName", OrElse(feature.name, ""))>>
        \o (IF feature.hasLocation
            THEN <<Space, renderLocation(m, LineOr(feature.line))>> ELSE <<>>)
        \o <<EOL>>
        \o (IF Truthy(feature.description)
            THEN <<EOL, logItem(m.indentOffset, "FeatureDescription", feature.description), EOL>>
            ELSE <<>>)
        \o <<EOL>>)

\* rule is the rule's id; its keyword is "Rule" and its name stands for itself
renderRule(m, rule) ==
    log(m, "renderRule",
        <<logItem(m.indentOffset, "RuleKeyword", "Rule:"),
          Space,
          logItem(m.indentOffset, "RuleName", OrElse(rule, "")),
          EOL, EOL>>)

renderScenarioHead(m, gherkinDocument, pickle) ==
    LET tagged == log(m, "renderScenarioHead",
                      renderTags(m.indentOffset, ScenarioTagIndent, pickle.tags))
        gherkinScenarioMap == getGherkinScenarioMap(gherkinDocument)
        id == First(pickle.astNodeIds)
    IN  IF ~pickle.hasAstNodeIds THEN throw(tagged, PickleAstNodesMissing)
        ELSE IF ~Has(gherkinScenarioMap, id)
        THEN throw(tagged, TypeError)     \* scenario.keyword of undefined
        ELSE LET scenario == gherkinScenarioMap[id]
             IN  log(tagged, "renderScenarioHead",
                     <<logItem(m.indentOffset, "ScenarioKeyword",
                               OrElse(scenario.keyword, "???") \o ":"),
                       Space,
                       logItem(m.indentOffset, "ScenarioName", OrElse(pickle.name, ""))>>
                     \o (IF Has(gherkinScenarioMap, id)
                         THEN <<Space, renderLocation(m, LineOr(scenario.line))>>
                         ELSE <<>>)
                     \o <<EOL>>)

(***************************************************************************)
(* The four handlers, each a function from the machine before to the       *)
(* machine after; a machine whose error is set has thrown.                 *)
(***************************************************************************)
\* enterDocument without the comparison of the URIs: every attempt is a transition.
enterDocument_EveryAttempt(m, gherkinDocument) ==
    IF gherkinDocument.hasFeature
    THEN renderFeatureHead([m EXCEPT !.indentOffset = 0,
                                     !.uri = OrElse(gherkinDocument.uri, ""),
                                     !.lastRuleId = Undefined],
                           gherkinDocument.feature)
    ELSE m

\* enterDocument with the reset done for a document without a feature too.
enterDocument_ResetWithoutFeature(m, gherkinDocument) ==
    IF m.uri # gherkinDocument.uri
    THEN LET reset == [m EXCEPT !.indentOffset = 0,
                                !.uri = OrElse(gherkinDocument.uri, ""),
                                !.lastRuleId = Undefined]
         IN  IF gherkinDocument.hasFeature
             THEN renderFeatureHead(reset, gherkinDocument.feature) ELSE reset
    ELSE m

\* enterDocument that renders the feature head and forgets to record the URI.
enterDocument_UriNotRecorded(m, gherkinDocument) ==
    IF m.uri # gherkinDocument.uri /\ gherkinDocument.hasFeature
    THEN renderFeatureHead([m EXCEPT !.indentOffset = 0, !.lastRuleId = Undefined],
                           gherkinDocument.feature)
    ELSE m

\* enterDocument that leaves the indentation offset as it was.
enterDocument_OffsetKept(m, gherkinDocument) ==
    IF m.uri # gherkinDocument.uri /\ gherkinDocument.hasFeature
    THEN renderFeatureHead([m EXCEPT !.uri = OrElse(gherkinDocument.uri, ""),
                                     !.lastRuleId = Undefined],
                           gherkinDocument.feature)
    ELSE m

\* enterDocument that keeps the rule of the previous document.
enterDocument_RuleKept(m, gherkinDocument) ==
    IF m.uri # gherkinDocument.uri /\ gherkinDocument.hasFeature
    THEN renderFeatureHead([m EXCEPT !.indentOffset = 0,
                                     !.uri = OrElse(gherkinDocument.uri, "")],
                           gherkinDocument.feature)
    ELSE m

\* The document transition of onTestCaseStarted.
enterDocument(m, gherkinDocument) ==
    IF m.uri # gherkinDocument.uri /\ gherkinDocument.hasFeature
    THEN renderFeatureHead([m EXCEPT !.indentOffset = 0,
                                     !.uri = OrElse(gherkinDocument.uri, ""),
                                     !.lastRuleId = Undefined],
                           gherkinDocument.feature)
    ELSE m

\* enterRule without the comparison with lastRuleId: every scenario of a rule renders it.
enterRule_EveryScenario(m, rule) ==
    IF rule # Undefined
    THEN [renderRule([m EXCEPT !.indentOffset = 0], rule)
            EXCEPT !.lastRuleId = rule, !.indentOffset = RuleIndentOffset]
    ELSE m

\* enterRule that renders the rule head at the offset left by the previous rule.
enterRule_NoReset(m, rule) ==
    IF rule # Undefined /\ rule # m.lastRuleId
    THEN [renderRule(m, rule)
            EXCEPT !.lastRuleId = rule, !.indentOffset = RuleIndentOffset]
    ELSE m

\* enterRule that leaves the offset at 0 after the rule head.
enterRule_OffsetNotRaised(m, rule) ==
    IF rule # Undefined /\ rule # m.lastRuleId
    THEN [renderRule([m EXCEPT !.indentOffset = 0], rule) EXCEPT !.lastRuleId = rule]
    ELSE m

\* The rule step of onTestCaseStarted; rule is the id of the rule found, or undefined.
enterRule(m, rule) ==
    IF rule # Undefined /\ rule # m.lastRuleId
    THEN [renderRule([m EXCEPT !.indentOffset = 0], rule)
            EXCEPT !.lastRuleId = rule, !.indentOffset = RuleIndentOffset]
    ELSE m

\* onTestCaseStarted that returns early, without the scenario head, for a scenario of
\* the rule already current.
onTestCaseStarted_NoHeadForRepeat(m, testCaseStarted) ==
    LET attempt == getTestCaseAttempt(testCaseStarted.id)
        gherkinDocument == attempt.gherkinDocument
        pickle == attempt.pickle
        m1 == enterDocument(m, gherkinDocument)
        gherkinExampleRuleMap == getGherkinExampleRuleMap(gherkinDocument)
    IN  IF ~pickle.hasAstNodeIds THEN throw(m1, PickleAstNodesMissing)
        ELSE LET rule == Lookup(gherkinExampleRuleMap, First(pickle.astNodeIds))
             IN  IF rule # Undefined /\ rule = m1.lastRuleId THEN m1
                 ELSE renderScenarioHead(enterRule(m1, rule), gherkinDocument, pickle)

\* onTestCaseStarted without its own check of pickle.astNodeIds.
onTestCaseStarted_NoCheck(m, testCaseStarted) ==
    LET attempt == getTestCaseAttempt(testCaseStarted.id)
        gherkinDocument == attempt.gherkinDocument
        pickle == attempt.pickle
        m1 == enterDocument(m, gherkinDocument)
        gherkinExampleRuleMap == getGherkinExampleRuleMap(gherkinDocument)
        rule == Lookup(gherkinExampleRuleMap, First(pickle.astNodeIds))
    IN  renderScenarioHead(enterRule(m1, rule), gherkinDocument, pickle)

\* onTestCaseStarted that checks pickle.astNodeIds before the document transition.
onTestCaseStarted_CheckFirst(m, testCaseStarted) ==
    LET attempt == getTestCaseAttempt(testCaseStarted.id)
        gherkinDocument == attempt.gherkinDocument
        pickle == attempt.pickle
        m1 == enterDocument(m, gherkinDocument)
        gherkinExampleRuleMap == getGherkinExampleRuleMap(gherkinDocument)
    IN  IF ~pickle.hasAstNodeIds THEN throw(m, PickleAstNodesMissing)
        ELSE LET rule == Lookup(gherkinExampleRuleMap, First(pickle.astNodeIds))
             IN  renderScenarioHead(enterRule(m1, rule), gherkinDocument, pickle)

onTestCaseStarted(m, testCaseStarted) ==
    LET attempt == getTestCaseAttempt(testCaseStarted.id)
        gherkinDocument == attempt.gherkinDocument
        pickle == attempt.pickle
        m1 == enterDocument(m, gherkinDocument)
        gherkinExampleRuleMap == getGherkinExampleRuleMap(gherkinDocument)
    IN  IF ~pickle.hasAstNodeIds THEN throw(m1, PickleAstNodesMissing)
        ELSE LET rule == Lookup(gherkinExampleRuleMap, First(pickle.astNodeIds))
             IN  renderScenarioHead(enterRule(m1, rule), gherkinDocument, pickle)

\* (testCase.testSteps || []).find((item) => item.id === testStepId): the steps found
find(testCase, testStepId) ==
    SelectSeq(IF testCase.hasTestSteps THEN testCase.testSteps ELSE <<>>,
              LAMBDA item : item.id = testStepId)

\* gherkinStep.dataTable.rows.map((row) => (row.cells || []).map((cell) =>
\*   this.styleItem(0, ThemeItem.DataTableContent, cell.value || ''))): the rows pushed
\* to the table, whose layout is the text of the DataTable item
tableRows(offset, rows) ==
    [r \in 1..Len(rows) |->
        LET cells == IF rows[r].hasCells THEN rows[r].cells ELSE <<>>
        IN  [c \in 1..Len(cells) |->
                styleItem(offset, 0, "DataTableContent", OrElse(cells[c], ""))]]

\* The items onTestStepStarted logs for a resolved step.
renderStep(offset, gherkinStep, pickleStep) ==
    <<logItem(offset, "StepKeyword", gherkinStep.keyword),
      Space,
      logItem(offset, "StepText", pickleStep.text),
      EOL>>
    \o (IF gherkinStep.hasDocString
        THEN <<logItem(offset, "DocStringDelimiter", "quotes"), EOL,
               logItem(offset, "DocStringContent", "content"), EOL,
               logItem(offset, "DocStringDelimiter", "quotes"), EOL>>
        ELSE <<>>)
    \o (IF gherkinStep.hasDataTable
        THEN <<logItem(offset, "DataTable", tableRows(offset, gherkinStep.rows)), EOL>>
        ELSE <<>>)

\* onTestStepStarted that forgets the rule when it skips a step
onTestStepStarted_ClearsRule(m, testStepStarted) ==
    LET attempt == getTestCaseAttempt(testStepStarted.testCaseStartedId)
        pickleStepMap == getPickleStepMap(attempt.pickle)
        gherkinStepMap == getGherkinStepMap(attempt.gherkinDocument)
        found == find(attempt.testCase, testStepStarted.testStepId)
    IN  IF found # <<>> /\ Truthy(found[1].pickleStepId)
        THEN IF ~Has(pickleStepMap, found[1].pickleStepId)
             THEN throw(m, TypeError)
             ELSE LET pickleStep == pickleStepMap[found[1].pickleStepId]
                      astNodeId == First(pickleStep.astNodeIds)
                  IN  IF ~Has(gherkinStepMap, astNodeId)
                      THEN throw(m, TypeError)
                      ELSE log(m, "onTestStepStarted",
                               renderStep(m.indentOffset, gherkinStepMap[astNodeId], pickleStep))
        ELSE [m EXCEPT !.lastRuleId = Undefined, !.indentOffset = 0]

onTestStepStarted(m, testStepStarted) ==
    LET attempt == getTestCaseAttempt(testStepStarted.testCaseStartedId)
        pickleStepMap == getPickleStepMap(attempt.pickle)
        gherkinStepMap == getGherkinStepMap(attempt.gherkinDocument)
        found == find(attempt.testCase, testStepStarted.testStepId)
    IN  IF found # <<>> /\ Truthy(found[1].pickleStepId)
        THEN IF ~Has(pickleStepMap, found[1].pickleStepId)
             THEN throw(m, TypeError)       \* pickleStep.astNodeIds of undefined
             ELSE LET pickleStep == pickleStepMap[found[1].pickleStepId]
                      astNodeId == First(pickleStep.astNodeIds)
                  IN  IF ~Has(gherkinStepMap, astNodeId)
                      THEN throw(m, TypeError)   \* gherkinStep.keyword of undefined
                      ELSE log(m, "onTestStepStarted",
                               renderStep(m.indentOffset, gherkinStepMap[astNodeId], pickleStep))
        ELSE m

\* testStepFinished.testStepResult || {}
ResultOf(testStepFinished) ==
    IF testStepFinished.hasTestStepResult
    THEN [status |-> testStepFinished.status, message |-> testStepFinished.message]
    ELSE [status |-> Undefined, message |-> Undefined]

\* onTestStepFinished with a numeric enumeration, whose UNKNOWN (0) is falsy.
onTestStepFinished_UnknownFalsy(m, testStepFinished) ==
    LET status == ResultOf(testStepFinished).status
        message == ResultOf(testStepFinished).message
    IN  IF Truthy(status) /\ status # "UNKNOWN" /\ status # "PASSED"
        THEN log(m, "onTestStepFinished",
                 <<logItem(m.indentOffset, "StepStatus",
                           marks[status] \o " " \o StatusLower[status]),
                   EOL>>
                 \o (IF Truthy(message)
                     THEN <<logItem(m.indentOffset, "StepMessage", message), EOL>>
                     ELSE <<>>))
        ELSE m

\* onTestStepFinished without the exclusion of passed results.
onTestStepFinished_PassedToo(m, testStepFinished) ==
    LET status == ResultOf(testStepFinished).status
        message == ResultOf(testStepFinished).message
    IN  IF Truthy(status)
        THEN log(m, "onTestStepFinished",
                 <<logItem(m.indentOffset, "StepStatus",
                           marks[status] \o " " \o StatusLower[status]),
                   EOL>>
                 \o (IF Truthy(message)
                     THEN <<logItem(m.indentOffset, "StepMessage", message), EOL>>
                     ELSE <<>>))
        ELSE m

onTestStepFinished(m, testStepFinished) ==
    LET status == ResultOf(testStepFinished).status
        message == ResultOf(testStepFinished).message
    IN  IF Truthy(status) /\ status # "PASSED"
        THEN log(m, "onTestStepFinished",
                 <<logItem(m.indentOffset, "StepStatus",
                           marks[status] \o " " \o StatusLower[status]),
                   EOL>>
                 \o (IF Truthy(message)
                     THEN <<logItem(m.indentOffset, "StepMessage", message), EOL>>
                     ELSE <<>>))
        ELSE m

\* onTestCaseFinished with a second newline() call
onTestCaseFinished_TwoLines(m, testCaseFinished) ==
    log(m, "onTestCaseFinished", <<EOL, EOL>>)

onTestCaseFinished(m, testCaseFinished) == log(m, "onTestCaseFinished", <<EOL>>)

\* One handler of parseEnvelope: skipped when its kind is absent, and never
\* reached when an earlier handler has thrown.
dispatch(m, present, handled) == IF m.error = NoError /\ present THEN handled ELSE m

\* parseEnvelope written as an else-if chain: only the first kind present is handled.
parseEnvelope_FirstKindOnly(m, e) ==
    IF e.testCaseStarted.present THEN onTestCaseStarted(m, e.testCaseStarted)
    ELSE IF e.testStepStarted.present THEN onTestStepStarted(m, e.testStepStarted)
    ELSE IF e.testStepFinished.present THEN onTestStepFinished(m, e.testStepFinished)
    ELSE IF e.testCaseFinished.present THEN onTestCaseFinished(m, e.testCaseFinished)
    ELSE m

parseEnvelope(m, e) ==
    LET m1 == dispatch(m, e.testCaseStarted.present, onTestCaseStarted(m, e.testCaseStarted))
        m2 == dispatch(m1, e.testStepStarted.present, onTestStepStarted(m1, e.testStepStarted))
        m3 == dispatch(m2, e.testStepFinished.present, onTestStepFinished(m2, e.testStepFinished))
    IN  dispatch(m3, e.testCaseFinished.present, onTestCaseFinished(m3, e.testCaseFinished))

(***************************************************************************)
(* Envelopes.  Each of the four kind-fields is present or absent.          *)
(***************************************************************************)
NoTestCaseStarted == [present |-> FALSE, id |-> Undefined]
NoTestStepStarted == [present |-> FALSE, testCaseStartedId |-> Undefined, testStepId |-> Undefined]
NoTestStepFinished ==
    [present |-> FALSE, hasTestStepResult |-> FALSE, status |-> Undefined, message |-> Undefined]
NoTestCaseFinished == [present |-> FALSE]

TestCaseStartedOf(id) == [present |-> TRUE, id |-> id]
TestStepStartedOf(id, step) == [present |-> TRUE, testCaseStartedId |-> id, testStepId |-> step]
TestStepFinishedOf(status, message) ==
    [present |-> TRUE, hasTestStepResult |-> TRUE, status |-> status, message |-> message]
TestStepFinishedNoResult ==
    [present |-> TRUE, hasTestStepResult |-> FALSE, status |-> Undefined, message |-> Undefined]
TestCaseFinishedOf == [present |-> TRUE]

Envelope(tcs, tss, tsf, tcf) ==
    [testCaseStarted |-> tcs, testStepStarted |-> tss,
     testStepFinished |-> tsf, testCaseFinished |-> tcf]

EmptyEnvelope ==
    Envelope(NoTestCaseStarted, NoTestStepStarted, NoTestStepFinished, NoTestCaseFinished)

TestCaseStartedEnvelopes ==
    {Envelope(TestCaseStartedOf(id), NoTestStepStarted, NoTestStepFinished, NoTestCaseFinished) :
        id \in AttemptIds}

TestStepStartedEnvelopes ==
    {Envelope(NoTestCaseStarted, TestStepStartedOf(id, step), NoTestStepFinished, NoTestCaseFinished) :
        id \in StepAttemptIds, step \in TestStepIds}

TestStepFinishedEnvelopes ==
    {Envelope(NoTestCaseStarted, NoTestStepStarted, tsf, NoTestCaseFinished) :
        tsf \in {TestStepFinishedOf(status, message) :
                    status \in Status \cup {Undefined}, message \in Messages}
                \cup {TestStepFinishedNoResult}}

TestCaseFinishedEnvelopes ==
    {Envelope(NoTestCaseStarted, NoTestStepStarted, NoTestStepFinished, TestCaseFinishedOf)}

Kinds(e) ==
    {k \in {"testCaseStarted", "testStepStarted", "testStepFinished", "testCaseFinished"} :
        e[k].present}

\* Envelopes that carry two or more kinds.
MixedEnvelopes ==
    {e \in {Envelope(tcs, tss, tsf, tcf) :
                tcs \in {NoTestCaseStarted, TestCaseStartedOf("a2"), TestCaseStartedOf("a5"),
                         TestCaseStartedOf("c1")},
                tss \in {NoTestStepStarted, TestStepStartedOf("a2", "ts1"),
                         TestStepStartedOf("a2", "ts4")},
                tsf \in {NoTestStepFinished, TestStepFinishedOf("FAILED", "boom")},
                tcf \in {NoTestCaseFinished, TestCaseFinishedOf}} :
        Cardinality(Kinds(e)) >= 2}

(***************************************************************************)
(* The state machine: one step is the broadcaster delivering one envelope. *)
(***************************************************************************)
Count(items, Test(_)) == Len(SelectSeq(items, Test))

\* The document of the attempt a testCaseStarted of e names.
DocumentOf(e) == getTestCaseAttempt(e.testCaseStarted.id).gherkinDocument

Init ==
    /\ uri = Undefined
    /\ lastRuleId = Undefined
    /\ indentOffset = 0
    /\ logged = <<>>
    /\ error = NoError
    /\ envelope = EmptyEnvelope
    /\ featureHeads = [u \in Uris |-> 0]
    /\ ruleHeads = [r \in RuleIds |-> 0]
    /\ nEvents = 0
    /\ theme \in {themeOf(parsedArgvOptions) : parsedArgvOptions \in ParsedArgvOptions}

\* eventBroadcaster emits 'envelope' with e: parseEnvelope(e) runs to its end or throws.
Deliver(e) ==
    /\ \E m \in {parseEnvelope([uri |-> uri, lastRuleId |-> lastRuleId,
                               indentOffset |-> indentOffset,
                               log |-> <<>>, error |-> NoError], e)} :
           /\ uri' = m.uri
           /\ lastRuleId' = m.lastRuleId
           /\ indentOffset' = m.indentOffset
           /\ logged' = m.log
           /\ error' = m.error
           /\ featureHeads' =
                [u \in Uris |-> featureHeads[u] +
                    IF e.testCaseStarted.present /\ DocumentOf(e).uri = u
                    THEN Count(m.log, LAMBDA x : x.item = "FeatureKeyword") ELSE 0]
           /\ ruleHeads' =
                [r \in RuleIds |-> ruleHeads[r] +
                    Count(m.log, LAMBDA x : x.item = "RuleName" /\ x.text = r)]
    /\ envelope' = e
    /\ nEvents' = nEvents + 1
    /\ UNCHANGED theme

\* The run of the model goes on while fewer than MaxEvents envelopes were delivered.
TestCaseStarted ==
    /\ nEvents < MaxEvents
    /\ \E e \in TestCaseStartedEnvelopes : Deliver(e)

TestStepStarted ==
    /\ nEvents < MaxEvents
    /\ \E e \in TestStepStartedEnvelopes : Deliver(e)

TestStepFinished ==
    /\ nEvents < MaxEvents
    /\ \E e \in TestStepFinishedEnvelopes : Deliver(e)

TestCaseFinished ==
    /\ nEvents < MaxEvents
    /\ \E e \in TestCaseFinishedEnvelopes : Deliver(e)

\* An envelope of a kind the formatter does not recognise.
OtherEnvelope ==
    /\ nEvents < MaxEvents
    /\ Deliver(EmptyEnvelope)

MixedEnvelope ==
    /\ nEvents < MaxEvents
    /\ \E e \in MixedEnvelopes : Deliver(e)

Next ==
    \/ TestCaseStarted
    \/ TestStepStarted
    \/ TestStepFinished
    \/ TestCaseFinished
    \/ OtherEnvelope
    \/ MixedEnvelope

Spec == Init /\ [][Next]_vars

(***************************************************************************)
(* What the last envelope did, read off the state.                         *)
(***************************************************************************)
\* The items of the last envelope that the routine `by` logged.
LoggedBy(by) == SelectSeq(logged, LAMBDA x : x.by = by)

\* The number of items of theme item `item` the last envelope logged.
LoggedItems(item) == Count(logged, LAMBDA x : x.item = item)

StartedAttempt == getTestCaseAttempt(envelope.testCaseStarted.id)
StartedDocument == StartedAttempt.gherkinDocument
StartedPickle == StartedAttempt.pickle

\* The rule that owns the scenario of the last attempt-started event, or undefined.
StartedRule ==
    Lookup(getGherkinExampleRuleMap(StartedDocument), First(StartedPickle.astNodeIds))

\* The last envelope carried an attempt-started event and every handler it ran returned.
StartedOk == envelope.testCaseStarted.present /\ error = NoError

\* The same, for the envelope e about to be delivered.
RuleOf(e) ==
    Lookup(getGherkinExampleRuleMap(DocumentOf(e)),
           First(getTestCaseAttempt(e.testCaseStarted.id).pickle.astNodeIds))

(***************************************************************************)
(* C1.  Original claim: the rule head of a given rule identifier is        *)
(* rendered at most once per document, for any sequence of attempt-started *)
(* events, sequences that alternate between rules included.  (A rule id    *)
(* belongs to one document, so the count per rule is the count per         *)
(* document and rule.)                                                     *)
(***************************************************************************)
C1_RuleHeadAtMostOncePerDocument == \A r \in RuleIds : ruleHeads[r] <= 1

(***************************************************************************)
(* C1, amended.  Every envelope renders at most one rule head, only in an  *)
(* attempt-started event and only that of the scenario's own rule, and it  *)
(* renders none when that rule is the one last rendered in the current     *)
(* document (the tracked URI is the document's and lastRuleId is the       *)
(* rule's id): the rule head is suppressed for repeats, not for a rule     *)
(* re-entered after another rule or another document.                      *)
(***************************************************************************)
C1_RuleHeadOncePerRun ==
    [][\A r \in RuleIds :
          /\ ruleHeads'[r] <= ruleHeads[r] + 1
          /\ ruleHeads'[r] > ruleHeads[r] =>
                /\ envelope'.testCaseStarted.present
                /\ RuleOf(envelope') = r
                /\ \A q \in RuleIds \ {r} : ruleHeads'[q] = ruleHeads[q]
          /\ (/\ envelope'.testCaseStarted.present
              /\ RuleOf(envelope') = r
              /\ lastRuleId = r
              /\ uri = DocumentOf(envelope').uri) => ruleHeads'[r] = ruleHeads[r]]_vars

\* A second attempt under rule R1 right after the first: R1's head was rendered once,
\* and not by this event.
C1_Witness ==
    /\ StartedOk
    /\ StartedRule = "R1"
    /\ ruleHeads["R1"] = 1
    /\ LoggedItems("RuleKeyword") = 0
    /\ LoggedItems("ScenarioKeyword") = 1

(***************************************************************************)
(* C2.  Original claim: the feature head of a given document is rendered   *)
(* at most once, for any sequence of attempt-started events, sequences     *)
(* that interleave documents included.                                     *)
(***************************************************************************)
C2_FeatureHeadAtMostOnce == \A u \in Uris : featureHeads[u] <= 1

(***************************************************************************)
(* C2, amended.  Every envelope renders at most one feature head, only in  *)
(* an attempt-started event, and none when the event's document URI equals *)
(* the tracked URI: the feature head is suppressed for consecutive         *)
(* scenarios of one document, not for a document re-entered after another. *)
(***************************************************************************)
C2_FeatureHeadOncePerRun ==
    [][/\ LoggedItems("FeatureKeyword")' <= 1
       /\ LoggedItems("FeatureKeyword")' = 1 =>
             /\ envelope'.testCaseStarted.present
             /\ uri # DocumentOf(envelope').uri
             /\ LoggedItems("FeatureName")' = 1
             /\ \E i \in 1..Len(logged') :
                   /\ logged'[i].item = "FeatureName"
                   /\ logged'[i].text = DocumentOf(envelope').feature.name
       /\ (envelope'.testCaseStarted.present /\ uri = DocumentOf(envelope').uri)
             => LoggedItems("FeatureKeyword")' = 0]_vars

\* A second scenario of document A right after the first: one feature head so far,
\* none from this event.
C2_Witness ==
    /\ StartedOk
    /\ StartedDocument = DocA
    /\ featureHeads[DocA.uri] = 1
    /\ LoggedItems("FeatureKeyword") = 0
    /\ LoggedItems("ScenarioKeyword") = 1

(***************************************************************************)
(* C3.  Claim: after every attempt-started event processed without error,  *)
(* the indentation offset is 0 if the scenario belongs to no rule and 2 if *)
(* it belongs to a rule; the offset of an earlier rule never lingers.      *)
(* The code leaves the offset at 2 for a scenario without a rule that      *)
(* follows a scenario with a rule in the same document.                    *)
(***************************************************************************)
C3_OffsetMatchesRule ==
    StartedOk => indentOffset = (IF StartedRule = Undefined THEN 0 ELSE RuleIndentOffset)

(***************************************************************************)
(* The items the step-finished handler logged for the last envelope, and   *)
(* whether it ran (no earlier handler of the envelope threw; the           *)
(* step-finished and attempt-finished handlers throw nothing themselves).  *)
(***************************************************************************)
FinishedRan == envelope.testStepFinished.present /\ error = NoError
FinishedResult == ResultOf(envelope.testStepFinished)
FinishedItems == LoggedBy("onTestStepFinished")

\* A message is attached to the result: it is there and not the empty string.
MessageAttached == FinishedResult.message \notin {Undefined, ""}

(***************************************************************************)
(* C4.  For every step-finished event whose status is a member of the      *)
(* status enumeration other than passed, exactly one status line is        *)
(* rendered (mark, a space, the lower-cased status name, a line end),      *)
(* followed by a message line (the message, a line end) if and only if a   *)
(* message is attached to the result.                                      *)
(***************************************************************************)
C4_NonPassedStatusLine ==
    (FinishedRan /\ FinishedResult.status \in Status \ {"PASSED"}) =>
        LET status == FinishedResult.status
            statusLine ==
                <<[by |-> "onTestStepFinished", item |-> "StepStatus",
                   indent |-> 4 + indentOffset,
                   text |-> marks[status] \o " " \o StatusLower[status]],
                  [by |-> "onTestStepFinished", item |-> "EOL", indent |-> 0, text |-> "\n"]>>
            messageLine ==
                <<[by |-> "onTestStepFinished", item |-> "StepMessage",
                   indent |-> 6 + indentOffset, text |-> FinishedResult.message],
                  [by |-> "onTestStepFinished", item |-> "EOL", indent |-> 0, text |-> "\n"]>>
        IN  FinishedItems = statusLine \o (IF MessageAttached THEN messageLine ELSE <<>>)

\* An "unknown" result with a message has been rendered under a rule.
C4_Witness ==
    /\ FinishedRan
    /\ FinishedResult.status = "UNKNOWN"
    /\ MessageAttached
    /\ Len(FinishedItems) = 4
    /\ indentOffset = RuleIndentOffset

(***************************************************************************)
(* C5.  A step-finished event whose status is passed produces no output at *)
(* all, no status line and no message line, even when a message is         *)
(* attached to the result.                                                 *)
(***************************************************************************)
C5_PassedStepSilent ==
    (envelope.testStepFinished.present /\ FinishedResult.status = "PASSED") =>
        /\ FinishedItems = <<>>
        /\ Kinds(envelope) = {"testStepFinished"} => logged = <<>> /\ error = NoError

\* A passed result that carries a message has been handled.
C5_Witness ==
    /\ Kinds(envelope) = {"testStepFinished"}
    /\ FinishedResult.status = "PASSED"
    /\ MessageAttached
    /\ logged = <<>>

(***************************************************************************)
(* C6.  Original claim: on an attempt-started event whose document URI     *)
(* differs from the tracked URI the tracker is reset, and the tracked URI  *)
(* set to the new URI, also when the document has no feature.  After any   *)
(* attempt-started event the tracked URI would then be the event's         *)
(* document's.                                                             *)
(***************************************************************************)
C6_UriTrackedWithoutFeature ==
    envelope.testCaseStarted.present => uri = StartedDocument.uri

(***************************************************************************)
(* C6, amended.  On an attempt-started event whose document URI differs    *)
(* from the tracked URI the tracker is reset and the feature head rendered *)
(* only when the document has a feature: then the tracked URI becomes the  *)
(* new URI and lastRuleId and indentOffset are those of a fresh document   *)
(* (undefined and 0, or the scenario's rule and 2 once its rule head is    *)
(* rendered).  When the document has no feature the event renders no       *)
(* feature head and leaves the tracked URI, lastRuleId and indentOffset    *)
(* as they were.                                                           *)
(***************************************************************************)
C6_ResetOnlyWithFeature ==
    [][(envelope'.testCaseStarted.present /\ uri # DocumentOf(envelope').uri) =>
          IF DocumentOf(envelope').hasFeature
          THEN /\ uri' = DocumentOf(envelope').uri
               /\ LoggedItems("FeatureKeyword")' = 1
               /\ \/ lastRuleId' = Undefined /\ indentOffset' = 0
                                             /\ LoggedItems("RuleKeyword")' = 0
                  \/ lastRuleId' = RuleOf(envelope') /\ indentOffset' = RuleIndentOffset
                                                     /\ LoggedItems("RuleKeyword")' = 1
          ELSE /\ uri' = uri
               /\ lastRuleId' = lastRuleId
               /\ indentOffset' = indentOffset
               /\ LoggedItems("FeatureKeyword")' = 0]_vars

\* An attempt of the document without a feature has been started while a rule of
\* document A was current: the tracker still names document A and its rule.
C6_Witness ==
    /\ envelope.testCaseStarted.present
    /\ ~StartedDocument.hasFeature
    /\ uri = DocA.uri
    /\ lastRuleId = "R1"
    /\ indentOffset = RuleIndentOffset
    /\ LoggedItems("FeatureKeyword") = 0

(***************************************************************************)
(* C7.  Whenever a scenario head is rendered, the tracked current document *)
(* URI, which is the URI printed in the scenario's location reference,     *)
(* equals the URI of the document that owns the scenario.                  *)
(***************************************************************************)
C7_ScenarioHeadUnderOwnDocument ==
    LoggedItems("ScenarioKeyword") > 0 =>
        /\ envelope.testCaseStarted.present
        /\ uri = StartedDocument.uri
        /\ \A i \in 1..Len(logged) :
              (logged[i].by = "renderScenarioHead" /\ logged[i].item = "Location") =>
                 \E line \in {-1} \cup 1..9 :
                    logged[i].text = "# " \o formatLocation(StartedDocument.uri, line)

\* A scenario head of document B has been rendered after document A was current.
C7_Witness ==
    /\ LoggedItems("ScenarioKeyword") = 1
    /\ StartedDocument = DocB
    /\ featureHeads[DocA.uri] >= 1
    /\ uri = DocB.uri
    /\ \E i \in 1..Len(logged) :
          logged[i].by = "renderScenarioHead" /\ logged[i].item = "Location"

\* The order of the blocks parseEnvelope can log.
Rank(by) ==
    CASE by = "renderFeatureHead" -> 1
      [] by = "renderRule" -> 2
      [] by = "renderScenarioHead" -> 3
      [] by = "onTestStepStarted" -> 4
      [] by = "onTestStepFinished" -> 5
      [] by = "onTestCaseFinished" -> 6

(***************************************************************************)
(* C8.  Every attempt-started event processed without error renders        *)
(* exactly one scenario head, whether or not a feature head or rule head   *)
(* was rendered for it, and the scenario head is the last block the event  *)
(* renders: within one event the order is [feature head], [rule head],     *)
(* scenario head.                                                          *)
(***************************************************************************)
C8_OneScenarioHeadLast ==
    StartedOk =>
        LET head == LoggedBy("renderScenarioHead")
        IN  /\ LoggedItems("ScenarioKeyword") = 1
            /\ LoggedItems("ScenarioName") = 1
            /\ LoggedItems("FeatureKeyword") <= 1
            /\ LoggedItems("RuleKeyword") <= 1
            /\ head # <<>> /\ head[Len(head)].item = "EOL"
            /\ Count(head, LAMBDA x : x.item = "EOL")
                  = 1 + Count(head, LAMBDA x : x.item = "Tag" /\ x.indent > 0)
            /\ \A i, j \in 1..Len(logged) :
                  i < j => Rank(logged[i].by) <= Rank(logged[j].by)
            /\ Kinds(envelope) = {"testCaseStarted"} =>
                  logged[Len(logged)].by = "renderScenarioHead"

\* A tagged scenario of the rule already current: the scenario head is the only block.
C8_Witness ==
    /\ StartedOk
    /\ Kinds(envelope) = {"testCaseStarted"}
    /\ LoggedItems("FeatureKeyword") = 0
    /\ LoggedItems("RuleKeyword") = 0
    /\ StartedRule # Undefined
    /\ LoggedItems("Tag") = 2
    /\ LoggedItems("ScenarioKeyword") = 1
    /\ logged[Len(logged)].by = "renderScenarioHead"

StepAttempt == getTestCaseAttempt(envelope.testStepStarted.testCaseStartedId)

\* The source step of the runtime step the last step-started event names resolves.
StepResolves ==
    LET found == find(StepAttempt.testCase, envelope.testStepStarted.testStepId)
        pickleStepMap == getPickleStepMap(StepAttempt.pickle)
    IN  /\ found # <<>>
        /\ found[1].pickleStepId \notin {Undefined, ""}
        /\ Has(pickleStepMap, found[1].pickleStepId)
        /\ Has(getGherkinStepMap(StepAttempt.gherkinDocument),
               First(pickleStepMap[found[1].pickleStepId].astNodeIds))

C10_UnresolvedStepSkipped ==
    (Kinds(envelope) = {"testStepStarted"} /\ ~StepResolves) =>
        logged = <<>> /\ error = NoError

(***************************************************************************)
(* C11.  Claim: when the scenario's first linked AST-node identifier does  *)
(* not resolve to a scenario source node, the scenario head is still       *)
(* rendered (keyword and name line) with the location reference omitted,   *)
(* and no error is raised; the location reference is rendered exactly when *)
(* the source node resolves.  The code reads scenario.keyword of the       *)
(* unresolved node and throws a TypeError before the keyword is logged.    *)
(***************************************************************************)
\* The first AST-node id of the started scenario resolves to a scenario node.
ScenarioResolves ==
    Has(getGherkinScenarioMap(StartedDocument), First(StartedPickle.astNodeIds))

\* The location references the scenario head of the last envelope logged.
ScenarioLocations ==
    Count(logged, LAMBDA x : x.by = "renderScenarioHead" /\ x.item = "Location")

C11_UnresolvedScenarioHeadWithoutLocation ==
    (Kinds(envelope) = {"testCaseStarted"} /\ StartedPickle.hasAstNodeIds) =>
        /\ error = NoError
        /\ LoggedItems("ScenarioKeyword") = 1
        /\ LoggedItems("ScenarioName") = 1
        /\ ScenarioLocations = (IF ScenarioResolves THEN 1 ELSE 0)

(***************************************************************************)
(* C13.  Every scenario-attempt-finished event emits exactly one blank     *)
(* line (one line terminator) and nothing else, whatever the preceding     *)
(* events were: the handler logs one line terminator as the last output of *)
(* its envelope, and an envelope that carries only this kind logs nothing  *)
(* else and raises no error.                                               *)
(***************************************************************************)
C13_FinishedEmitsOneBlankLine ==
    /\ (envelope.testCaseFinished.present /\ error = NoError) =>
          /\ LoggedBy("onTestCaseFinished") =
                <<[by |-> "onTestCaseFinished", item |-> "EOL", indent |-> 0, text |-> "\n"]>>
          /\ logged[Len(logged)].by = "onTestCaseFinished"
    /\ Kinds(envelope) = {"testCaseFinished"} =>
          /\ error = NoError
          /\ Len(logged) = 1
    /\ ~envelope.testCaseFinished.present => LoggedBy("onTestCaseFinished") = <<>>

\* An attempt-finished event under a rule: one line terminator, not indented.
C13_Witness ==
    /\ Kinds(envelope) = {"testCaseFinished"}
    /\ indentOffset = RuleIndentOffset
    /\ lastRuleId = "R2"
    /\ Len(logged) = 1
    /\ logged[1].text = "\n"

(***************************************************************************)
(* C19.  Only scenario-attempt-started events change the tracker: an       *)
(* envelope without an attempt-started event (step-started, step-finished, *)
(* attempt-finished, in any combination, or none) leaves the tracked URI,  *)
(* lastRuleId and indentOffset unchanged for every input, also before any  *)
(* attempt-started event, for a step that is skipped, and when the step    *)
(* handler throws.                                                         *)
(***************************************************************************)
C19_OnlyStartedChangesTracker ==
    [][~envelope'.testCaseStarted.present =>
          UNCHANGED <<uri, lastRuleId, indentOffset>>]_vars

\* A step-started event for a hook step, skipped while rule R1 is current.
C19_Witness ==
    /\ Kinds(envelope) = {"testStepStarted"}
    /\ envelope.testStepStarted.testStepId = "hook"
    /\ logged = <<>>
    /\ error = NoError
    /\ uri = DocA.uri
    /\ lastRuleId = "R1"
    /\ indentOffset = RuleIndentOffset

(***************************************************************************)
(* C17.  In every state reachable between events, indentOffset is either 0 *)
(* or 2, and it is 2 exactly when lastRuleId is set, which happens only    *)
(* after the head of that rule has been rendered and no document           *)
(* transition has reset the tracker since; in the initial state            *)
(* indentOffset is 0 and neither the URI nor lastRuleId is set.            *)
(***************************************************************************)
C17_OffsetTracksRule ==
    /\ indentOffset \in {0, RuleIndentOffset}
    /\ (indentOffset = RuleIndentOffset) <=> (lastRuleId # Undefined)
    /\ lastRuleId # Undefined =>
          /\ lastRuleId \in RuleIds
          /\ ruleHeads[lastRuleId] >= 1
          /\ uri # Undefined
    /\ nEvents = 0 =>
          /\ uri = Undefined
          /\ lastRuleId = Undefined
          /\ indentOffset = 0

\* The tracker reset by the transition to document B after rule R1 of document A.
C17_Witness ==
    /\ StartedOk
    /\ uri = DocB.uri
    /\ ruleHeads["R1"] >= 1
    /\ lastRuleId = Undefined
    /\ indentOffset = 0

(***************************************************************************)
(* C20.  When an attempt-started event fails because the scenario's        *)
(* AST-node identifier list is missing, the check runs after the           *)
(* document-transition step and before the rule step: if the event's       *)
(* document has a feature and a URI different from the tracked one, the    *)
(* feature head has been rendered and the tracker reset to (new URI, no    *)
(* rule, offset 0) when the error propagates; otherwise output and tracker *)
(* are unchanged; in every case no rule head and no scenario head is       *)
(* rendered and lastRuleId is not set by the failing event.                *)
(***************************************************************************)
C20_MissingIdsFailAfterDocumentStep ==
    [][(/\ envelope'.testCaseStarted.present
        /\ ~getTestCaseAttempt(envelope'.testCaseStarted.id).pickle.hasAstNodeIds) =>
          /\ error' = PickleAstNodesMissing
          /\ IF DocumentOf(envelope').hasFeature /\ uri # DocumentOf(envelope').uri
             THEN /\ uri' = DocumentOf(envelope').uri
                  /\ lastRuleId' = Undefined
                  /\ indentOffset' = 0
                  /\ LoggedItems("FeatureKeyword")' = 1
                  /\ \A i \in 1..Len(logged') : logged'[i].by = "renderFeatureHead"
             ELSE /\ logged' = <<>>
                  /\ UNCHANGED <<uri, lastRuleId, indentOffset>>
          /\ LoggedItems("RuleKeyword")' = 0
          /\ LoggedItems("ScenarioKeyword")' = 0
          /\ LoggedBy("renderRule")' = <<>>
          /\ LoggedBy("renderScenarioHead")' = <<>>
          /\ lastRuleId' \in {lastRuleId, Undefined}
          /\ UNCHANGED ruleHeads]_vars

\* The failing attempt a5 of document A, delivered while document B and its rule R3
\* were current: feature head of A rendered, tracker reset, then the error.
C20_Witness ==
    /\ envelope.testCaseStarted.present
    /\ envelope.testCaseStarted.id = "a5"
    /\ error = PickleAstNodesMissing
    /\ ruleHeads["R3"] >= 1
    /\ LoggedItems("FeatureKeyword") = 1
    /\ uri = DocA.uri
    /\ lastRuleId = Undefined
    /\ indentOffset = 0

(***************************************************************************)
(* C15.  When an attempt-started event enters a rule whose identifier      *)
(* differs from lastRuleId, the rule head is rendered with offset 0 (also  *)
(* when the previous scenario was under another rule, with offset 2), then *)
(* lastRuleId is the rule's id and indentOffset is 2, and the scenario     *)
(* head of the same event follows the rule head and is rendered with       *)
(* offset 2.                                                               *)
(***************************************************************************)
\* The pickle of the attempt-started event of e.
PickleOf(e) == getTestCaseAttempt(e.testCaseStarted.id).pickle

\* The attempt-started event of e finds a rule that is not the current one when the
\* rule step runs, i.e. after the document transition has cleared lastRuleId.
EntersRule(e, trackedUri, trackedRule) ==
    /\ e.testCaseStarted.present
    /\ PickleOf(e).hasAstNodeIds
    /\ RuleOf(e) # Undefined
    /\ \/ RuleOf(e) # trackedRule
       \/ DocumentOf(e).hasFeature /\ DocumentOf(e).uri # trackedUri

\* Positions in `items` of the items logged by the routine `by`.
PositionsBy(items, by) == {i \in 1..Len(items) : items[i].by = by}

C15_RuleHeadAtOffsetZeroThenTwo ==
    [][EntersRule(envelope', uri, lastRuleId) =>
          /\ LoggedItems("RuleKeyword")' = 1
          /\ \A i \in PositionsBy(logged', "renderRule") :
                logged'[i].indent =
                    (IF logged'[i].item \in DOMAIN themeItemIndentations
                     THEN themeItemIndentations[logged'[i].item] ELSE 0)
          /\ lastRuleId' = RuleOf(envelope')
          /\ indentOffset' = RuleIndentOffset
          /\ ruleHeads'[RuleOf(envelope')] = ruleHeads[RuleOf(envelope')] + 1
          /\ LoggedItems("ScenarioKeyword")' = 1
          /\ \A i \in PositionsBy(logged', "renderScenarioHead") :
                /\ logged'[i].item = "ScenarioKeyword" =>
                      logged'[i].indent =
                          themeItemIndentations["ScenarioKeyword"] + RuleIndentOffset
                /\ \A j \in PositionsBy(logged', "renderRule") : j < i]_vars

\* Rule R2 entered straight after rule R1 of the same document: the offset was 2 when
\* the event arrived, and R2's head is rendered at the base indentation of a rule.
C15_Witness ==
    /\ StartedOk
    /\ StartedRule = "R2"
    /\ uri = DocA.uri
    /\ ruleHeads["R1"] >= 1
    /\ LoggedItems("FeatureKeyword") = 0
    /\ LoggedItems("RuleKeyword") = 1
    /\ \E i \in 1..Len(logged) :
          /\ logged[i].item = "RuleKeyword"
          /\ logged[i].indent = themeItemIndentations["RuleKeyword"]
    /\ lastRuleId = "R2"
    /\ indentOffset = RuleIndentOffset

(***************************************************************************)
(* C16.  An attempt-started event renders the feature head exactly once    *)
(* when its document has a feature and its URI differs from the tracked    *)
(* URI: the head comes first and at offset 0, the tracked URI becomes the  *)
(* new URI and lastRuleId is cleared, so that a rule scenario that opens   *)
(* the new document always renders its rule head and lastRuleId afterwards *)
(* is that scenario's rule or nothing.  It renders no feature head when    *)
(* its URI equals the tracked URI.                                         *)
(***************************************************************************)
C16_FeatureHeadOnDocumentTransition ==
    [][envelope'.testCaseStarted.present =>
          IF DocumentOf(envelope').hasFeature /\ DocumentOf(envelope').uri # uri
          THEN /\ LoggedItems("FeatureKeyword")' = 1
               /\ featureHeads'[DocumentOf(envelope').uri] =
                     featureHeads[DocumentOf(envelope').uri] + 1
               /\ \A i \in PositionsBy(logged', "renderFeatureHead") :
                     /\ logged'[i].item \in DOMAIN themeItemIndentations =>
                           logged'[i].indent = themeItemIndentations[logged'[i].item]
                     /\ \A j \in 1..Len(logged') :
                           logged'[j].by # "renderFeatureHead" => i < j
               /\ uri' = DocumentOf(envelope').uri
               /\ IF PickleOf(envelope').hasAstNodeIds /\ RuleOf(envelope') # Undefined
                  THEN /\ LoggedItems("RuleKeyword")' = 1
                       /\ lastRuleId' = RuleOf(envelope')
                       /\ indentOffset' = RuleIndentOffset
                  ELSE /\ LoggedItems("RuleKeyword")' = 0
                       /\ lastRuleId' = Undefined
                       /\ indentOffset' = 0
          ELSE /\ LoggedBy("renderFeatureHead")' = <<>>
               /\ uri' = uri
               /\ UNCHANGED featureHeads]_vars

\* Document A re-entered after document B: its feature head and the head of rule R1
\* are both rendered a second time.
C16_Witness ==
    /\ StartedOk
    /\ StartedDocument = DocA
    /\ StartedRule = "R1"
    /\ featureHeads[DocA.uri] = 2
    /\ ruleHeads["R1"] = 2
    /\ LoggedItems("FeatureKeyword") = 1
    /\ LoggedItems("RuleKeyword") = 1
    /\ uri = DocA.uri
    /\ lastRuleId = "R1"

(***************************************************************************)
(* C12.  Two consecutive scenario attempts under the same rule R of one    *)
(* document produce exactly one rule head and exactly two scenario heads,  *)
(* both rendered while the indentation offset is the rule-nesting width.   *)
(* Every attempt under a rule R renders one scenario head at offset 2 and  *)
(* at most one rule head, and leaves the tracker at (document, R, 2); the  *)
(* events of other kinds in between do not touch the tracker (C19); an     *)
(* attempt that finds the tracker so for its own document and rule renders *)
(* no rule head and one scenario head at offset 2.                         *)
(***************************************************************************)
\* The scenario keywords among `items` are all at the base indentation plus the
\* rule-nesting width.
ScenarioHeadsUnderRule(items) ==
    \A i \in 1..Len(items) :
        items[i].item = "ScenarioKeyword" =>
            items[i].indent = themeItemIndentations["ScenarioKeyword"] + RuleIndentOffset

\* The last envelope started an attempt whose scenario belongs to a rule.
StartedUnderRule ==
    /\ envelope.testCaseStarted.present
    /\ StartedPickle.hasAstNodeIds
    /\ StartedRule # Undefined

C12_SameRuleOneRuleHeadTwoScenarioHeads ==
    [][/\ StartedUnderRule' =>
             /\ LoggedItems("ScenarioKeyword")' = 1
             /\ ScenarioHeadsUnderRule(logged')
             /\ LoggedItems("RuleKeyword")' <= 1
             /\ ruleHeads'[StartedRule'] >= 1
             /\ uri' = StartedDocument'.uri
             /\ lastRuleId' = StartedRule'
             /\ indentOffset' = RuleIndentOffset
       /\ (/\ StartedUnderRule'
           /\ uri = StartedDocument'.uri
           /\ lastRuleId = StartedRule') =>
             /\ LoggedItems("RuleKeyword")' = 0
             /\ UNCHANGED ruleHeads
             /\ indentOffset = RuleIndentOffset]_vars

\* The second of two attempts under rule R1 (an example-table row), the first having
\* rendered the only rule head so far.
C12_Witness ==
    /\ nEvents = 2
    /\ StartedUnderRule
    /\ envelope.testCaseStarted.id = "a3"
    /\ StartedRule = "R1"
    /\ ruleHeads["R1"] = 1
    /\ featureHeads[DocA.uri] = 1
    /\ LoggedItems("RuleKeyword") = 0
    /\ LoggedItems("ScenarioKeyword") = 1
    /\ ScenarioHeadsUnderRule(logged)
    /\ indentOffset = RuleIndentOffset

(***************************************************************************)
(* C14.  The event router handles one envelope at a time; when an envelope *)
(* carries several kind-fields each present kind is handled, in the fixed  *)
(* order attempt-started, step-started, step-finished, attempt-finished    *)
(* (a handler that throws ends the envelope, so the kinds after it are not *)
(* reached); a kind that is absent produces nothing; an envelope carrying  *)
(* none of the four kinds produces no output, raises no error and leaves   *)
(* the tracker state unchanged.                                            *)
(***************************************************************************)
\* The routines that log on behalf of each kind of event.
RoutinesOf(kind) ==
    CASE kind = "testCaseStarted" -> {"renderFeatureHead", "renderRule", "renderScenarioHead"}
      [] kind = "testStepStarted" -> {"onTestStepStarted"}
      [] kind = "testStepFinished" -> {"onTestStepFinished"}
      [] kind = "testCaseFinished" -> {"onTestCaseFinished"}

\* What the last envelope logged, kind by kind.
RoutedInOrder ==
    /\ \A i \in 1..(Len(logged) - 1) : Rank(logged[i].by) <= Rank(logged[i + 1].by)
    /\ \A kind \in {"testCaseStarted", "testStepStarted", "testStepFinished",
                    "testCaseFinished"} \ Kinds(envelope) :
          \A i \in 1..Len(logged) : logged[i].by \notin RoutinesOf(kind)
    /\ error = NoError =>
          /\ envelope.testCaseStarted.present => LoggedItems("ScenarioKeyword") = 1
          /\ (envelope.testStepStarted.present /\ StepResolves) =>
                LoggedItems("StepKeyword") = 1
          /\ (/\ envelope.testStepFinished.present
              /\ FinishedResult.status \in Status \ {"PASSED"}) =>
                LoggedItems("StepStatus") = 1
          /\ envelope.testCaseFinished.present =>
                Len(LoggedBy("onTestCaseFinished")) = 1
    /\ Kinds(envelope) = {} => logged = <<>> /\ error = NoError

C14_RouterHandlesEachKindInOrder ==
    [][/\ nEvents' = nEvents + 1
       /\ RoutedInOrder'
       /\ Kinds(envelope') = {} => UNCHANGED <<uri, lastRuleId, indentOffset>>]_vars

\* An envelope carrying all four kinds, each handled, in order.
C14_Witness ==
    /\ Cardinality(Kinds(envelope)) = 4
    /\ error = NoError
    /\ LoggedItems("RuleKeyword") = 1
    /\ LoggedItems("ScenarioKeyword") = 1
    /\ LoggedItems("StepKeyword") = 1
    /\ LoggedItems("StepStatus") = 1
    /\ logged[Len(logged)].by = "onTestCaseFinished"

(***************************************************************************)
(* C18.  The effective indentation of a rendered item is a function of the *)
(* item's base indentation and the current indentOffset only, independent  *)
(* of whether colours are enabled and of the theme: it is base +           *)
(* indentOffset when both base > 0 and indentOffset > 0, and base          *)
(* otherwise.  Items of base indentation 0 (names, location, the second    *)
(* and later tags of a tag line, table cells) are never shifted by the     *)
(* rule offset; the first tag of a scenario tag line, the scenario         *)
(* keyword, step keyword, status, message, doc-block and data-table lines  *)
(* are shifted by 2 inside a rule.                                         *)
(***************************************************************************)
\* The logged item at position i is the first tag of a tag line.
FirstTag(i) ==
    /\ logged[i].item = "Tag"
    /\ i = 1 \/ logged[i - 1].item # "text"

\* The base indentation the render routine passed for the item at position i.
BaseIndent(i) ==
    IF FirstTag(i)
    THEN IF logged[i].by = "renderFeatureHead" THEN FeatureTagIndent ELSE ScenarioTagIndent
    ELSE themeItemIndentations[logged[i].item]

\* this.indentOffset when the item at position i was rendered: 0 for the feature head
\* and the rule head, the offset the event ends with for what follows them.
OffsetAt(i) ==
    IF logged[i].by \in {"renderFeatureHead", "renderRule"} THEN 0 ELSE indentOffset

\* The columns of spaces the output has in front of the item under the style table.
EffectiveIndent(styleTable, x) ==
    indentStyleText(styleTable, x.indent, x.item, x.text).indent

ItemsShiftedUnderRule ==
    {"ScenarioKeyword", "StepKeyword", "StepStatus", "StepMessage",
     "DocStringDelimiter", "DocStringContent", "DataTable"}

ItemsNeverShifted ==
    {"FeatureName", "RuleName", "ScenarioName", "StepText", "Location", "DataTableContent"}

C18_IndentationFromBaseAndOffsetOnly ==
    \A i \in 1..Len(logged) :
        logged[i].item \in ThemeItems =>
            /\ EffectiveIndent(theme, logged[i]) =
                  (IF BaseIndent(i) > 0 /\ OffsetAt(i) > 0
                   THEN BaseIndent(i) + OffsetAt(i) ELSE BaseIndent(i))
            /\ \A parsedArgvOptions \in ParsedArgvOptions :
                  EffectiveIndent(themeOf(parsedArgvOptions), logged[i]) =
                      EffectiveIndent(theme, logged[i])
            /\ (logged[i].item \in ItemsNeverShifted \/ (logged[i].item = "Tag" /\ ~FirstTag(i)))
                  => EffectiveIndent(theme, logged[i]) = 0
            /\ ((logged[i].item \in ItemsShiftedUnderRule \/ FirstTag(i))
                    /\ logged[i].by \notin {"renderFeatureHead", "renderRule"}
                    /\ lastRuleId # Undefined)
                  => EffectiveIndent(theme, logged[i]) = BaseIndent(i) + RuleIndentOffset
            /\ logged[i].item = "DataTable" =>
                  \A r \in 1..Len(logged[i].text) : \A c \in 1..Len(logged[i].text[r]) :
                      /\ logged[i].text[r][c].item = "DataTableContent"
                      /\ EffectiveIndent(theme, logged[i].text[r][c]) = 0

\* A step with a doc string and a data table rendered under rule R1 with colours
\* disabled: the step lines are shifted by 2, the step text and the cells are not.
C18_Witness ==
    /\ theme = makeTheme(EmptyMap)
    /\ indentOffset = RuleIndentOffset
    /\ error = NoError
    /\ LoggedItems("DocStringContent") = 1
    /\ \E i \in 1..Len(logged) :
          /\ logged[i].item = "DataTable"
          /\ logged[i].indent = themeItemIndentations["DataTable"] + RuleIndentOffset
          /\ Len(logged[i].text) = 2
          /\ logged[i].text[1][2] = [item |-> "DataTableContent", indent |-> 0, text |-> ""]
    /\ \E i \in 1..Len(logged) :
          /\ logged[i].item = "StepText"
          /\ logged[i].indent = 0
====
